---- MODULE Spec2Model ----
(***************************************************************************)
(* A model of the Strapi content source for Stackbit: the schema mapping   *)
(* (toStackbitModels), the document mapping (toStackbitDocuments) and the  *)
(* write path of StrapiContentSource.updateDocument.                       *)
(*                                                                         *)
(* JavaScript strings are TLA+ strings; a character is a string of length  *)
(* one.  Other JavaScript values are tagged records (field k is the tag).  *)
(***************************************************************************)
EXTENDS Integers, Sequences, FiniteSets, TLC

VARIABLES
    strapiModels,   \* StrapiContentSource.strapiModels (JsUndefined until getSchema)
    stackbitCache,  \* the models held by the host's cache, read by getModelByName
    call            \* the last call made on the content source and what it returned

vars == <<strapiModels, stackbitCache, call>>

-----------------------------------------------------------------------------
(* Bounds of the model *)

\* longest batch of documents handed to toStackbitDocuments
MaxBatch == 2
\* longest text that follows the model name in a composite id given to updateDocument
MaxTail == 3
\* the longest batch of edit operations made of the representative operations
MaxOperations == 2
\* the largest page count a response of the CMS declares
MaxPages == 3

-----------------------------------------------------------------------------
(* JavaScript values *)

JsUndefined == [k |-> "undefined"]
JsNull == [k |-> "null"]
JsBool(b) == [k |-> "bool", b |-> b]
JsNum(n) == [k |-> "num", n |-> n]
JsStr(s) == [k |-> "str", s |-> s]
\* an object is the sequence of its entries <<key, value>>, in Object.entries order
JsObj(entries) == [k |-> "obj", entries |-> entries]
JsArr(items) == [k |-> "arr", items |-> items]

\* the value a JavaScript condition takes v for
Truthy(v) ==
    CASE v.k = "undefined" -> FALSE
      [] v.k = "null" -> FALSE
      [] v.k = "bool" -> v.b
      [] v.k = "num" -> v.n # 0
      [] v.k = "str" -> v.s # ""
      [] OTHER -> TRUE

\* o[key] of an object value: the value of the entry, undefined when there is none
JsGet(o, key) ==
    IF o.k = "obj" /\ \E i \in 1..Len(o.entries) : o.entries[i][1] = key
    THEN LET i == CHOOSE j \in 1..Len(o.entries) : o.entries[j][1] = key
         IN o.entries[i][2]
    ELSE JsUndefined

\* a JsPut that leaves the value of a key already present as it is
JsPutKeepingFirst(entries, key, value) ==
    IF \E i \in 1..Len(entries) : entries[i][1] = key
    THEN entries
    ELSE Append(entries, <<key, value>>)

\* record[key] = value of a Record<string, T> kept as a sequence of entries
JsPut(entries, key, value) ==
    IF \E i \in 1..Len(entries) : entries[i][1] = key
    THEN [i \in 1..Len(entries) |->
            IF entries[i][1] = key THEN <<key, value>> ELSE entries[i]]
    ELSE Append(entries, <<key, value>>)

-----------------------------------------------------------------------------
(* JavaScript string functions *)

Char(s, i) == SubSeq(s, i, i)

Digits == "0123456789"

RECURSIVE NumToStr(_)
NumToStr(n) ==
    IF n < 10 THEN Char(Digits, n + 1)
    ELSE NumToStr(n \div 10) \o Char(Digits, (n % 10) + 1)

\* `${v}`: the text a template literal gives a value
ToStr(v) ==
    CASE v.k = "str" -> v.s
      [] v.k = "num" -> NumToStr(v.n)
      [] v.k = "bool" -> IF v.b THEN "true" ELSE "false"
      [] v.k = "null" -> "null"
      [] v.k = "undefined" -> "undefined"
      [] OTHER -> "[object Object]"

Contains(s, c) == \E i \in 1..Len(s) : Char(s, i) = c

\* s.indexOf(c) + 1 for a character c: 0 when c does not occur
IndexOf(s, c) ==
    IF Contains(s, c) THEN CHOOSE i \in 1..Len(s) :
        /\ Char(s, i) = c
        /\ \A j \in 1..(i - 1) : Char(s, j) # c
    ELSE 0

\* s.lastIndexOf(c) + 1
LastIndexOf(s, c) ==
    IF Contains(s, c) THEN CHOOSE i \in 1..Len(s) :
        /\ Char(s, i) = c
        /\ \A j \in (i + 1)..Len(s) : Char(s, j) # c
    ELSE 0

\* s.split(c) for a one-character separator: every piece between separators
RECURSIVE Split(_, _)
Split(s, c) ==
    LET i == IndexOf(s, c) IN
    IF i = 0 THEN <<s>>
    ELSE <<SubSeq(s, 1, i - 1)>> \o Split(SubSeq(s, i + 1, Len(s)), c)

\* s.replace(/c/g, d): every occurrence of the character c becomes d
RECURSIVE ReplaceAll(_, _, _)
ReplaceAll(s, c, d) ==
    IF s = "" THEN ""
    ELSE (IF Char(s, 1) = c THEN d ELSE Char(s, 1))
         \o ReplaceAll(SubSeq(s, 2, Len(s)), c, d)

\* s.replace(/^.*\./, ''): the greedy match removes everything up to the last dot
StripToLastDot(s) == SubSeq(s, LastIndexOf(s, ".") + 1, Len(s))

StartsWith(s, p) == Len(s) >= Len(p) /\ SubSeq(s, 1, Len(p)) = p

-----------------------------------------------------------------------------
(* Constants of the program *)

ID_SEPARATOR == "#"

undefined == "undefined"

typeMapping ==
    [boolean |-> "boolean", integer |-> "number", string |-> "string",
     richtext |-> "text", text |-> "text", datetime |-> "datetime",
     json |-> "json", enumeration |-> "string"]

\* typeMapping[t]: undefined for a key the table does not have
typeMappingAt(t) == IF t \in DOMAIN typeMapping THEN typeMapping[t] ELSE undefined

-----------------------------------------------------------------------------
(* Schema mapping: strapi-source-utils.ts, toStackbitModels *)

Has(r, f) == f \in DOMAIN r

\* the attribute types of the first case group of toStackbitModels
ScalarAttributeTypes ==
    {"float", "boolean", "string", "richtext", "integer", "datetime", "json",
     "text", "enumeration"}

\* the attribute types the switch of toStackbitModels has a case for
KnownAttributeTypes == ScalarAttributeTypes \cup {"relation", "component", "media"}

\* x.replace(/-/g, '_')
HyphensToUnderscores(x) == ReplaceAll(x, "-", "_")

\* attribute.target.split('.')[1].replace(/-/g, '_')
relationTargetModel(target) == HyphensToUnderscores(Split(target, ".")[2])

\* a componentModel that forgets to replace the hyphens
componentModelKeepingHyphens(component) == StripToLastDot(component)

\* attribute.component!.replace(/^.*\./, '').replace(/-/g, '_')
componentModel(component) == HyphensToUnderscores(StripToLastDot(component))

\* an isToMany that forgets manyToMany
isToManyWithoutManyToMany(relation) == relation = "oneToMany"

\* ['oneToMany', 'manyToMany'].includes(attribute.relation)
isToMany(relation) == relation \in {"oneToMany", "manyToMany"}

\* the callback of Object.entries(model.attributes).map: one attribute to one field
toStackbitField(attributeName, attribute) ==
    CASE attribute.type \in ScalarAttributeTypes ->
            [type |-> typeMappingAt(attribute.type),
             name |-> attributeName,
             required |-> Has(attribute, "required") /\ attribute.required,
             default |-> IF Has(attribute, "default") THEN attribute.default
                         ELSE JsUndefined]
      [] attribute.type = "relation" ->
            IF isToMany(attribute.relation)
            THEN [type |-> "list",
                  name |-> attributeName,
                  items |-> [type |-> "reference",
                             models |-> <<relationTargetModel(attribute.target)>>]]
            ELSE [type |-> "reference",
                  name |-> attributeName,
                  models |-> <<relationTargetModel(attribute.target)>>]
      [] attribute.type = "component" ->
            IF Has(attribute, "repeatable") /\ attribute.repeatable
            THEN [type |-> "list",
                  name |-> attributeName,
                  items |-> [type |-> "model",
                             models |-> <<componentModel(attribute.component)>>]]
            ELSE [type |-> "model",
                  name |-> attributeName,
                  models |-> <<componentModel(attribute.component)>>]
      [] attribute.type = "media" ->
            [type |-> "file", name |-> attributeName]
      \* default: a diagnostic is logged and the attribute itself is returned
      [] OTHER -> attribute

\* contentTypeSettings.find(cts => cts.uid === model.uid)?.settings?.mainField
labelFieldOf(model, contentTypeSettings) ==
    IF \E i \in 1..Len(contentTypeSettings) : contentTypeSettings[i].uid = model.uid
    THEN LET i == CHOOSE j \in 1..Len(contentTypeSettings) :
                    /\ contentTypeSettings[j].uid = model.uid
                    /\ \A h \in 1..(j - 1) : contentTypeSettings[h].uid # model.uid
         IN contentTypeSettings[i].settings.mainField
    ELSE JsUndefined

\* the callback of models.map: one source model to one Stackbit model
toStackbitModel(model, contentTypeSettings) ==
    [type |-> IF StartsWith(model.uid, "api::") THEN "data" ELSE "object",
     name |-> HyphensToUnderscores(model.apiID),
     context |-> [draftAndPublish |-> model.options.draftAndPublish,
                  apiEndpoint |-> model.info.pluralName],
     labelField |-> labelFieldOf(model, contentTypeSettings),
     fields |-> [i \in 1..Len(model.attributes) |->
                    toStackbitField(model.attributes[i][1], model.attributes[i][2])]]

toStackbitModels(models, contentTypeSettings) ==
    [i \in 1..Len(models) |-> toStackbitModel(models[i], contentTypeSettings)]

-----------------------------------------------------------------------------
(* Document mapping: strapi-source-utils.ts, toStackbitDocuments *)

\* what a function call comes to: a returned value, or a thrown error
Return(v) == [ok |-> TRUE, v |-> v]
Throw(e) == [ok |-> FALSE, error |-> e]

IsUndefined(x) == Has(x, "k") /\ x.k = "undefined"

\* stackbitCache.getModelByName(name) on the cached models: the model of that
\* name, or undefined
getModelByName(cache, name) ==
    IF \E i \in 1..Len(cache) : cache[i].name = name
    THEN cache[CHOOSE i \in 1..Len(cache) :
                    /\ cache[i].name = name
                    /\ \A j \in 1..(i - 1) : cache[j].name # name]
    ELSE JsUndefined

\* a findField that does not compare the names
findFieldIgnoringName(model, attributeName) ==
    IF Len(model.fields) = 0 THEN JsUndefined ELSE model.fields[1]

\* model.fields?.find((field) => field.name === attributeName)
findField(model, attributeName) ==
    LET fields == model.fields
        found == {i \in 1..Len(fields) :
                    Has(fields[i], "name") /\ fields[i].name = attributeName}
    IN IF found = {} THEN JsUndefined
       ELSE fields[CHOOSE i \in found : \A j \in found : i <= j]

\* the field types toDocumentField returns as {type, value}
ValueFieldTypes ==
    {"string", "url", "slug", "text", "markdown", "html", "boolean", "date",
     "datetime", "color", "number", "enum", "file", "json", "style", "richText"}

\* the item types toDocumentListFieldItems answers with an empty list
UnhandledItemTypes ==
    {"string", "url", "slug", "text", "markdown", "html", "number", "boolean",
     "date", "datetime", "color", "json", "richText", "file", "enum", "image",
     "object", "cross-reference", "style", "list"}

\* a referenceName that takes the target model's name
referenceNameOfTarget(modelField) == modelField.models[1]

\* the name a bare reference is encoded with: ${modelField.name}
referenceName(modelField) == modelField.name

\* a reference to the document id of model name modelName
referenceTo(modelName, id) ==
    [type |-> "reference", refType |-> "document",
     refId |-> JsStr(modelName \o ID_SEPARATOR \o ToStr(id))]

RECURSIVE toFields(_, _, _)
RECURSIVE toFieldsReduce(_, _, _, _)
RECURSIVE toDocumentField(_, _, _)
RECURSIVE toDocumentListFieldItems(_, _, _)
RECURSIVE mapItems(_, _, _, _)

\* the reduce of toFields over the entries left by the filter, from entry i on
toFieldsReduce(cache, entries, model, i) ==
    IF i > Len(entries) THEN Return(<<>>)
    ELSE IF entries[i][2].k = "null"
         THEN toFieldsReduce(cache, entries, model, i + 1)
    ELSE IF IsUndefined(model) THEN Throw("TypeError")
    ELSE LET documentField ==
                toDocumentField(cache, findField(model, entries[i][1]), entries[i][2])
             rest == toFieldsReduce(cache, entries, model, i + 1)
         IN IF ~documentField.ok THEN documentField
            ELSE IF ~rest.ok THEN rest
            ELSE IF IsUndefined(documentField.v) THEN rest
            ELSE Return(<< <<entries[i][1], documentField.v>> >> \o rest.v)

\* Object.entries(value): the entries of an object, the indexed items of an
\* array, the indexed characters of a string, nothing for a number or a boolean
objectEntries(value) ==
    CASE value.k = "obj" -> value.entries
      [] value.k = "arr" ->
            [i \in 1..Len(value.items) |-> <<NumToStr(i - 1), value.items[i]>>]
      [] value.k = "str" ->
            [i \in 1..Len(value.s) |-> <<NumToStr(i - 1), JsStr(Char(value.s, i))>>]
      [] OTHER -> <<>>

\* toFields(documentAttributes, model): Object.entries of a null or undefined
\* value throws
toFields(cache, documentAttributes, model) ==
    IF documentAttributes.k \in {"null", "undefined"} THEN Throw("TypeError")
    ELSE toFieldsReduce(cache, objectEntries(documentAttributes), model, 1)

toDocumentField(cache, modelField, attributeValue) ==
    IF IsUndefined(modelField) THEN Return(JsUndefined)
    ELSE CASE modelField.type \in ValueFieldTypes ->
                Return([type |-> modelField.type, value |-> attributeValue])
           [] modelField.type = "image" ->
                IF Truthy(attributeValue)
                THEN Return([type |-> "reference", refType |-> "asset",
                             refId |-> attributeValue])
                ELSE Return(JsUndefined)
           [] modelField.type = "reference" ->
                IF Truthy(attributeValue) /\ Truthy(JsGet(attributeValue, "data"))
                THEN Return(referenceTo(referenceName(modelField),
                                        JsGet(JsGet(attributeValue, "data"), "id")))
                ELSE Return(JsUndefined)
           [] modelField.type = "list" ->
                LET items == toDocumentListFieldItems(cache, modelField.items,
                                                      attributeValue)
                IN IF ~items.ok THEN items
                   ELSE Return([type |-> "list", localized |-> FALSE,
                                items |-> items.v])
           [] modelField.type = "model" ->
                LET modelName == modelField.models[1]
                    fields == toFields(cache, attributeValue,
                                       getModelByName(cache, modelName))
                IN IF ~fields.ok THEN fields
                   ELSE Return([type |-> "model", localized |-> FALSE,
                                modelName |-> modelName, fields |-> fields.v])
           [] modelField.type \in {"object", "cross-reference"} ->
                Throw("not implemented")
           \* default: the exhaustiveness check returns the model field itself
           [] OTHER -> Return(modelField)

\* values.map(v => item(v)) of toDocumentListFieldItems, from item i on
mapItems(cache, fieldSpecificProps, values, i) ==
    IF i > Len(values) THEN Return(<<>>)
    ELSE LET modelName == fieldSpecificProps.models[1]
             model == getModelByName(cache, modelName)
             fields == toFields(cache, values[i], model)
             item ==
                IF fieldSpecificProps.type = "model"
                THEN IF ~fields.ok THEN fields
                     ELSE Return([type |-> "model", localized |-> FALSE,
                                  modelName |-> modelName, fields |-> fields.v])
                ELSE IF IsUndefined(model) THEN Throw("TypeError")
                     ELSE IF values[i].k \in {"null", "undefined"}
                          THEN Throw("TypeError")
                     ELSE Return(referenceTo(model.name, JsGet(values[i], "id")))
             rest == mapItems(cache, fieldSpecificProps, values, i + 1)
         IN IF ~item.ok THEN item
            ELSE IF ~rest.ok THEN rest
            ELSE Return(<<item.v>> \o rest.v)

\* a toDocumentListFieldItems that maps the first item only
toDocumentListFieldItemsOfFirst(cache, fieldSpecificProps, attributeValue) ==
    IF fieldSpecificProps.type = "model" /\ attributeValue.k = "arr"
    THEN mapItems(cache, fieldSpecificProps,
                  IF attributeValue.items = <<>> THEN <<>>
                  ELSE <<attributeValue.items[1]>>, 1)
    ELSE Return(<<>>)

\* .map of a value that is no array throws
toDocumentListFieldItems(cache, fieldSpecificProps, attributeValue) ==
    CASE fieldSpecificProps.type = "model" ->
            IF attributeValue.k # "arr" THEN Throw("TypeError")
            ELSE mapItems(cache, fieldSpecificProps, attributeValue.items, 1)
      [] fieldSpecificProps.type = "reference" ->
            IF JsGet(attributeValue, "data").k # "arr" THEN Throw("TypeError")
            ELSE mapItems(cache, fieldSpecificProps,
                          JsGet(attributeValue, "data").items, 1)
      [] fieldSpecificProps.type \in UnhandledItemTypes -> Return(<<>>)
      [] OTHER -> Return(fieldSpecificProps)

\* a statusOf that does not look at draftAndPublish
statusOfPublishedAtAlone(model, document) ==
    IF Truthy(JsGet(document.attributes, "publishedAt"))
    THEN "published" ELSE "added"

\* model.context?.draftAndPublish ? (publishedAt ? 'published' : 'added') : 'published'
statusOf(model, document) ==
    IF Has(model, "context") /\ Truthy(model.context.draftAndPublish)
    THEN IF Truthy(JsGet(document.attributes, "publishedAt"))
         THEN "published" ELSE "added"
    ELSE "published"

\* `${document.type.replace(/-/g, '_')}${ID_SEPARATOR}${document.id}`
toDocumentId(document) ==
    HyphensToUnderscores(document.type) \o ID_SEPARATOR \o ToStr(document.id)

\* the callback of documents.map: one source document to one Stackbit document
toStackbitDocument(cache, document, manageUrl) ==
    LET modelName == HyphensToUnderscores(document.type)
        model == getModelByName(cache, modelName)
        fields == toFields(cache, document.attributes, model)
    IN IF IsUndefined(model) THEN Throw("TypeError")
       ELSE IF ~fields.ok THEN fields
       ELSE Return([type |-> "document",
                    id |-> toDocumentId(document),
                    modelName |-> modelName,
                    status |-> statusOf(model, document),
                    manageUrl |-> manageUrl \o "/collectionType/api::"
                                  \o document.type \o "." \o document.type
                                  \o "/" \o ToStr(document.id),
                    context |-> <<>>,
                    createdAt |-> JsGet(document.attributes, "createdAt"),
                    updatedAt |-> JsGet(document.attributes, "updatedAt"),
                    fields |-> fields.v])

\* documents.map(...): the first callback that throws ends the whole map
RECURSIVE toStackbitDocumentsFrom(_, _, _, _)
toStackbitDocumentsFrom(cache, documents, manageUrl, i) ==
    IF i > Len(documents) THEN Return(<<>>)
    ELSE LET first == toStackbitDocument(cache, documents[i], manageUrl)
             rest == toStackbitDocumentsFrom(cache, documents, manageUrl, i + 1)
         IN IF ~first.ok THEN first
            ELSE IF ~rest.ok THEN rest
            ELSE Return(<<first.v>> \o rest.v)

toStackbitDocuments(cache, documents, manageUrl) ==
    toStackbitDocumentsFrom(cache, documents, manageUrl, 1)

-----------------------------------------------------------------------------
(* Write path: strapi-source-utils.ts, stackbitUpdatesToStrapiFields *)

\* the field types whose writes are refused
UnwritableFieldTypes == {"image", "object", "model", "cross-reference", "list"}

convertUpdateOperationFieldToStrapiDocumentField(updateOperationField) ==
    CASE updateOperationField.type \in ValueFieldTypes ->
            Return(updateOperationField.value)
      [] updateOperationField.type = "reference" ->
            Return(updateOperationField.refId)
      [] updateOperationField.type \in UnwritableFieldTypes ->
            Throw("not implemented")
      [] OTHER -> Return(updateOperationField)

\* a payloadKey that takes the last segment of the path
payloadKeyOfLastSegment(fieldPath) == fieldPath[Len(fieldPath)]

\* fieldPath[0]: the key of the payload an operation writes
payloadKey(fieldPath) == fieldPath[1]

\* an unsetField that deletes the key
unsetFieldDeletingKey(fields, key) ==
    LET kept(entry) == entry[1] # key IN SelectSeq(fields, kept)

\* fields[fieldPath[0]] = undefined
unsetField(fields, key) == JsPut(fields, key, JsUndefined)

\* the for loop of stackbitUpdatesToStrapiFields from operation i on, fields
\* being the payload built so far
RECURSIVE stackbitUpdatesLoop(_, _, _)
stackbitUpdatesLoop(updateOperations, fields, i) ==
    IF i > Len(updateOperations) THEN Return(fields)
    ELSE LET operation == updateOperations[i] IN
        CASE operation.opType = "set" ->
                LET value ==
                        convertUpdateOperationFieldToStrapiDocumentField(operation.field)
                IN IF ~value.ok THEN value
                   ELSE stackbitUpdatesLoop(updateOperations,
                            JsPut(fields, payloadKey(operation.fieldPath), value.v),
                            i + 1)
          [] operation.opType = "unset" ->
                CASE operation.modelField.type \in
                        (ValueFieldTypes \cup {"image", "reference"}) ->
                        stackbitUpdatesLoop(updateOperations,
                            unsetField(fields, payloadKey(operation.fieldPath)),
                            i + 1)
                  [] operation.modelField.type \in
                        {"object", "model", "cross-reference", "list"} ->
                        Throw("not implemented")
                  \* default: the function returns the model field
                  [] OTHER -> Return(operation.modelField)
          [] OTHER -> Throw("operation not implemented")

\* a stackbitUpdatesToStrapiFields that skips the operations it does not know
stackbitUpdatesOfSetAndUnset(updateOperations) ==
    LET known(operation) == operation.opType \in {"set", "unset"}
    IN stackbitUpdatesLoop(SelectSeq(updateOperations, known), <<>>, 1)

stackbitUpdatesToStrapiFields(updateOperations) ==
    stackbitUpdatesLoop(updateOperations, <<>>, 1)

\* the for loop of stackbitUpdatedFieldToExampleFields over the entries
\* <<fieldName, updateOperationField>> from entry i on
RECURSIVE stackbitUpdatedFieldsLoop(_, _, _)
stackbitUpdatedFieldsLoop(entries, fields, i) ==
    IF i > Len(entries) THEN Return(fields)
    ELSE LET value == convertUpdateOperationFieldToStrapiDocumentField(entries[i][2])
         IN IF ~value.ok THEN value
            ELSE stackbitUpdatedFieldsLoop(entries,
                    JsPut(fields, entries[i][1], value.v), i + 1)

stackbitUpdatedFieldToExampleFields(updateOperationFields) ==
    stackbitUpdatedFieldsLoop(updateOperationFields, <<>>, 1)

-----------------------------------------------------------------------------
(* What the source CMS serves: content types, components, settings *)

StringAttribute == [type |-> "string"]

\* api::tag.tag, without draft and publish
tagContentType ==
    [uid |-> "api::tag.tag", apiID |-> "tag",
     options |-> [draftAndPublish |-> JsBool(FALSE)],
     info |-> [pluralName |-> JsStr("tags")],
     attributes |-> << <<"label", [type |-> "string", required |-> TRUE]>> >>]

\* the users of the users-permissions plugin: a content type outside api::
usersPermissionsUser ==
    [uid |-> "plugin::users-permissions.user", apiID |-> "user",
     options |-> [draftAndPublish |-> JsBool(FALSE)],
     info |-> [pluralName |-> JsStr("users")],
     attributes |-> << <<"username", StringAttribute>> >>]

\* the component shared.seo-meta (a component has no options.draftAndPublish
\* and no info.pluralName)
seoMetaComponent ==
    [uid |-> "shared.seo-meta", apiID |-> "seo-meta",
     options |-> [draftAndPublish |-> JsUndefined],
     info |-> [pluralName |-> JsUndefined],
     attributes |-> << <<"metaTitle", StringAttribute>>,
                       <<"canonical", [type |-> "relation", relation |-> "oneToOne",
                                       target |-> "api::tag.tag"]>> >>]

heroComponent ==
    [uid |-> "layout.hero", apiID |-> "hero",
     options |-> [draftAndPublish |-> JsUndefined],
     info |-> [pluralName |-> JsUndefined],
     attributes |-> << <<"heading", StringAttribute>> >>]

\* the component layout.section, which nests the repeatable component
\* shared.seo-meta
sectionComponent ==
    [uid |-> "layout.section", apiID |-> "section",
     options |-> [draftAndPublish |-> JsUndefined],
     info |-> [pluralName |-> JsUndefined],
     attributes |-> << <<"heading", StringAttribute>>,
                       <<"metas", [type |-> "component", repeatable |-> TRUE,
                                   component |-> "shared.seo-meta"]>> >>]

\* a component of another category with the apiID of layout.hero
sharedHeroComponent ==
    [uid |-> "shared.hero", apiID |-> "hero",
     options |-> [draftAndPublish |-> JsUndefined],
     info |-> [pluralName |-> JsUndefined],
     attributes |-> << <<"heading", StringAttribute>> >>]

\* api::blog-post.blog-post with the given attributes, with draft and publish
blogPostContentType(attributes) ==
    [uid |-> "api::blog-post.blog-post", apiID |-> "blog-post",
     options |-> [draftAndPublish |-> JsBool(TRUE)],
     info |-> [pluralName |-> JsStr("blog-posts")],
     attributes |-> attributes]

\* a blog post with one attribute of every shape toStackbitModels knows
blogPostAttributes ==
    << <<"title", [type |-> "string", required |-> TRUE, default |-> JsStr("untitled")]>>,
       <<"price", [type |-> "float"]>>,
       <<"category", [type |-> "relation", relation |-> "manyToOne",
                      target |-> "api::tag.tag"]>>,
       <<"tags", [type |-> "relation", relation |-> "manyToMany",
                  target |-> "api::tag.tag"]>>,
       <<"editors", [type |-> "relation", relation |-> "oneToMany",
                     target |-> "plugin::users-permissions.user"]>>,
       <<"seo", [type |-> "component", component |-> "shared.seo-meta"]>>,
       <<"blocks", [type |-> "component", repeatable |-> TRUE,
                    component |-> "shared.seo-meta"]>>,
       <<"cover", [type |-> "media"]>>,
       <<"slug", [type |-> "uid"]>>,
       <<"sections", [type |-> "component", repeatable |-> TRUE,
                      component |-> "layout.section"]>> >>

ContentTypeSettings ==
    << [uid |-> "api::tag.tag", settings |-> [mainField |-> JsStr("label")]],
       [uid |-> "plugin::users-permissions.user",
        settings |-> [mainField |-> JsStr("username")]] >>

\* every attribute the schema mapping is tried on
SourceAttributes ==
    UNION {
        {[type |-> t] : t \in ScalarAttributeTypes},
        {[type |-> t, required |-> r, default |-> d] :
            t \in ScalarAttributeTypes, r \in BOOLEAN, d \in {JsNull, JsStr("x")}},
        {[type |-> "relation", relation |-> r, target |-> t] :
            r \in {"oneToOne", "oneToMany", "manyToOne", "manyToMany"},
            t \in {"api::tag.tag", "api::blog-post.blog-post",
                   "plugin::users-permissions.user"}},
        {[type |-> "component", component |-> c] :
            c \in {"shared.seo-meta", "layout.hero"}},
        {[type |-> "component", repeatable |-> r, component |-> c] :
            r \in BOOLEAN, c \in {"shared.seo-meta", "layout.hero"}},
        {[type |-> "media"], [type |-> "uid"], [type |-> "dynamiczone"]} }

\* the published-at entry of a served document: absent, null, or a timestamp
PublishedAtEntries ==
    {<<>>, << <<"publishedAt", JsNull>> >>,
     << <<"publishedAt", JsStr("2023-05-01T10:00:00.000Z")>> >>}

\* {id: n}: an entry of a populated relation
related(n) == JsObj(<< <<"id", JsNum(n)>> >>)

\* the value of a component shared.seo-meta: a null attribute, an attribute the
\* component does not declare, and two it declares
seoMetaValue(title) ==
    JsObj(<< <<"id", JsNum(1)>>,
             <<"metaTitle", JsStr(title)>>,
             <<"canonical", JsObj(<< <<"data", related(7)>> >>)>>,
             <<"keywords", JsNull>> >>)

\* the value of a component layout.section with the given nested values
sectionValue(heading, metas) ==
    JsObj(<< <<"id", JsNum(2)>>,
             <<"heading", JsStr(heading)>>,
             <<"metas", JsArr(metas)>> >>)

\* one attribute of a served blog post, by attribute of blogPostAttributes
BlogPostEntries ==
    {<<"title", JsStr("Hello")>>, <<"title", JsNull>>,
     <<"price", JsNum(5)>>,
     <<"category", JsObj(<< <<"data", related(3)>> >>)>>,
     <<"category", JsObj(<< <<"data", JsNull>> >>)>>,
     <<"category", JsObj(<<>>)>>,
     <<"tags", JsObj(<< <<"data", JsArr(<<related(3), related(7)>>)>> >>)>>,
     <<"tags", JsObj(<< <<"data", JsArr(<<>>)>> >>)>>,
     <<"editors", JsObj(<< <<"data", JsArr(<<related(3)>>)>> >>)>>,
     <<"editors", JsObj(<< <<"data", JsArr(<<>>)>> >>)>>,
     <<"seo", seoMetaValue("T")>>, <<"seo", JsNull>>,
     <<"blocks", JsArr(<<seoMetaValue("A"), seoMetaValue("B")>>)>>,
     <<"blocks", JsArr(<<>>)>>,
     <<"cover", JsObj(<< <<"data", JsNull>> >>)>>,
     <<"slug", JsStr("hello")>>,
     <<"views", JsNum(9)>>,
     <<"sections", JsArr(<<sectionValue("S", <<seoMetaValue("A"), seoMetaValue("B")>>),
                           sectionValue("T", <<>>)>>)>>}

\* the ids of served documents (StrapiDocument.id is a number)
DocumentIds == {JsNum(12), JsNum(7)}

\* every document the CMS serves for a content type, by apiID
ServedDocuments(apiID) ==
    IF apiID = "blog-post"
    THEN {[id |-> id, type |-> apiID, attributes |-> JsObj(<<e>> \o p)] :
            id \in DocumentIds, e \in BlogPostEntries, p \in PublishedAtEntries}
    ELSE {[id |-> id, type |-> apiID,
           attributes |-> JsObj(p \o << <<"label", JsStr("news")>> >>)] :
            id \in DocumentIds, p \in PublishedAtEntries}

\* the documents longer batches are made of
BatchDocuments ==
    {[id |-> JsNum(3), type |-> "blog-post",
      attributes |-> JsObj(<< <<"title", JsStr("Hello")>> >>)],
     [id |-> JsNum(7), type |-> "tag",
      attributes |-> JsObj(<< <<"label", JsStr("news")>> >>)],
     [id |-> JsNum(12), type |-> "tag",
      attributes |-> JsObj(<< <<"label", JsStr("old")>>,
                              <<"publishedAt", JsNull>> >>)]}

RECURSIVE SeqsUpTo(_, _)
\* the sequences over S of length at most n
SeqsUpTo(S, n) ==
    IF n = 0 THEN {<<>>}
    ELSE LET shorter == SeqsUpTo(S, n - 1)
         IN shorter \cup {Append(q, x) : q \in {r \in shorter : Len(r) = n - 1}, x \in S}

RECURSIVE StringsUpTo(_, _)
\* the strings over the characters C of length at most n
StringsUpTo(C, n) ==
    IF n = 0 THEN {""}
    ELSE LET shorter == StringsUpTo(C, n - 1)
         IN shorter \cup {q \o c : q \in {r \in shorter : Len(r) = n - 1}, c \in C}

\* the document ids updateDocument is given: a model name followed by any text
\* over the separator and a digit
CompositeIds ==
    {m \o t : m \in {"tag", "blog_post", "seo_meta", "ghost"},
              t \in StringsUpTo({ID_SEPARATOR, "7"}, MaxTail)}

setTitle ==
    [opType |-> "set", fieldPath |-> <<"title">>,
     field |-> [type |-> "string", value |-> JsStr("Hello")]]

unsetTitle ==
    [opType |-> "unset", fieldPath |-> <<"title">>,
     modelField |-> [type |-> "string", name |-> "title"]]

setSeo ==
    [opType |-> "set", fieldPath |-> <<"seo">>,
     field |-> [type |-> "model", modelName |-> "seo_meta", fields |-> <<>>]]

insertTag ==
    [opType |-> "insert", fieldPath |-> <<"tags">>,
     item |-> [type |-> "reference", refType |-> "document", refId |-> JsStr("tag#3")]]

\* the operation batches updateDocument is given
OperationBatches ==
    {<<>>, <<setTitle>>, <<unsetTitle>>, <<unsetTitle, setTitle>>, <<setSeo>>,
     <<setTitle, insertTag>>}

\* the documents on a page of a content type: two on the first page, one on
\* every other
ServedPage(apiID, page) ==
    LET served(n) == [id |-> JsNum(n),
                      attributes |-> JsObj(<< <<"label", JsStr("news")>> >>)]
    IN IF page = 1 THEN <<served(11), served(12)>> ELSE <<served(10 * page + 1)>>

\* every field type of the Stackbit vocabulary the write path has a case for
WriteFieldTypes == ValueFieldTypes \cup {"reference"} \cup UnwritableFieldTypes

\* an UpdateOperationField of the given type
operationField(type) ==
    CASE type \in ValueFieldTypes -> [type |-> type, value |-> JsStr("Hello")]
      [] type = "reference" ->
            [type |-> type, refType |-> "document", refId |-> JsStr("tag#3")]
      [] OTHER -> [type |-> type]

setOperation(fieldPath, field) ==
    [opType |-> "set", fieldPath |-> fieldPath, field |-> field]

unsetOperation(fieldPath, type) ==
    [opType |-> "unset", fieldPath |-> fieldPath,
     modelField |-> [type |-> type, name |-> fieldPath[1]]]

\* the field paths of the edit operations: two differ in a deeper segment only
FieldPaths == {<<"title">>, <<"seo", "metaTitle">>, <<"seo", "canonical">>}

\* every single operation: a set and an unset of every field type on every
\* path, and the operations that are neither
SingleOperations ==
    UNION {
        {setOperation(p, operationField(t)) : p \in FieldPaths, t \in WriteFieldTypes},
        {unsetOperation(p, t) : p \in FieldPaths, t \in WriteFieldTypes},
        {[opType |-> o, fieldPath |-> <<"tags">>,
          item |-> operationField("reference")] : o \in {"insert", "remove"}} }

\* the operations longer batches are made of
RepresentativeOperations ==
    {setTitle, unsetTitle, setSeo, insertTag,
     setOperation(<<"title">>, [type |-> "string", value |-> JsStr("Bye")]),
     setOperation(<<"category">>, operationField("reference")),
     unsetOperation(<<"cover">>, "image")}

\* the operation batches the write path is tried on
WriteBatches ==
    {<<operation>> : operation \in SingleOperations}
        \cup SeqsUpTo(RepresentativeOperations, MaxOperations)

\* the updateOperationFields createDocument is given, as entries
\* <<fieldName, updateOperationField>>
CreationFields ==
    UNION {
        {<<>>},
        {<< <<"title", operationField(t)>> >> : t \in WriteFieldTypes},
        {<< <<"title", operationField("string")>>, <<"cover", operationField(t)>> >> :
            t \in WriteFieldTypes} }

-----------------------------------------------------------------------------
(* StrapiApiClient: the schema fetches *)

isApi(model) == StartsWith(model.uid, "api::")

\* getContentTypes: the content types served, filtered to the api:: ones
getContentTypes(served) == SelectSeq(served, isApi)

\* getContentTypeSettings: the settings served, filtered to the api:: ones
getContentTypeSettings(served) == SelectSeq(served, isApi)

-----------------------------------------------------------------------------
(* StrapiContentSource *)

Init ==
    /\ strapiModels = JsUndefined
    /\ stackbitCache = <<>>
    /\ call = [op |-> "constructor"]

\* getSchema -> getModels: fetch the components, the content types and the
\* settings, keep the source models, return the mapped models
GetSchema(components, contentTypes, settings) ==
    LET fetched == components \o getContentTypes(contentTypes)
        models == toStackbitModels(fetched, getContentTypeSettings(settings))
    IN /\ strapiModels' = JsArr(fetched)
       /\ call' = [op |-> "getSchema",
                   result |-> [context |-> <<>>, models |-> models, locales |-> <<>>]]
       /\ UNCHANGED stackbitCache

\* the host installs the models getSchema returned into its cache
HostInstallsSchema ==
    /\ call.op = "getSchema"
    /\ stackbitCache' = call.result.models
    /\ UNCHANGED <<strapiModels, call>>

\* `${this.strapiUrl}/admin/content-manager` with the default url
manageUrl == "http://localhost:1337" \o "/admin/content-manager"

\* the position of the content type of apiID in the fetched models
modelIndex(apiID) ==
    CHOOSE i \in 1..Len(strapiModels.items) :
        isApi(strapiModels.items[i]) /\ strapiModels.items[i].apiID = apiID

\* StrapiApiClient.getDocuments: the documents of the api:: models, model after
\* model in the order of the models, each typed with its model's apiID
canBeFetched(documents) ==
    /\ \A i \in 1..Len(documents) :
        \E j \in 1..Len(strapiModels.items) :
            isApi(strapiModels.items[j]) /\ strapiModels.items[j].apiID = documents[i].type
    /\ \A i \in 1..(Len(documents) - 1) :
        modelIndex(documents[i].type) <= modelIndex(documents[i + 1].type)

\* getDocuments: fetch the documents of this.strapiModels and map them
GetDocuments(documents) ==
    /\ IF IsUndefined(strapiModels)
       THEN call' = [op |-> "getDocuments", documents |-> <<>>,
                     result |-> Throw("TypeError")]
       ELSE /\ canBeFetched(documents)
            /\ call' = [op |-> "getDocuments", documents |-> documents,
                        result |-> toStackbitDocuments(stackbitCache, documents,
                                                       manageUrl)]
    /\ UNCHANGED <<strapiModels, stackbitCache>>

\* JSON.stringify of a record: the properties whose value is undefined are
\* left out
jsonStringify(fields) ==
    LET defined(entry) == ~IsUndefined(entry[2]) IN SelectSeq(fields, defined)

\* StrapiApiClient.updateDocument: one PUT request
putDocument(contentType, id, fields) ==
    [method |-> "PUT",
     url |-> "http://localhost:1337" \o "/api/" \o ToStr(contentType) \o "/"
             \o ToStr(id),
     body |-> [data |-> jsonStringify(fields)]]

\* a splitDocumentId that takes the id from the first piece
splitDocumentIdFirstPieceTwice(id) ==
    LET parts == Split(id, ID_SEPARATOR)
    IN [contentType |-> parts[1], id |-> JsStr(parts[1])]

\* const [contentType, id] = options.document.id.split(ID_SEPARATOR)
splitDocumentId(id) ==
    LET parts == Split(id, ID_SEPARATOR)
    IN [contentType |-> parts[1],
        id |-> IF Len(parts) >= 2 THEN JsStr(parts[2]) ELSE JsUndefined]

\* updateDocument: translate the operations, split the document id, look the
\* model up, send the PUT
UpdateDocument(documentId, operations) ==
    LET fields == stackbitUpdatesToStrapiFields(operations)
        parts == splitDocumentId(documentId)
        model == getModelByName(stackbitCache, parts.contentType)
    IN /\ call' =
            [op |-> "updateDocument", documentId |-> documentId,
             operations |-> operations, fields |-> fields,
             contentType |-> parts.contentType, id |-> parts.id,
             result |-> IF ~fields.ok THEN fields
                        ELSE IF IsUndefined(model) THEN Throw("TypeError")
                        ELSE Return(JsUndefined),
             requests |-> IF fields.ok /\ ~IsUndefined(model)
                          THEN <<putDocument(model.context.apiEndpoint, parts.id,
                                             fields.v)>>
                          ELSE <<>>]
       /\ UNCHANGED <<strapiModels, stackbitCache>>

\* StrapiApiClient.createDocument: sends nothing and answers {}
createDocument(type, fields) == JsObj(<<>>)

\* createDocument: translate the fields, create the document, map the answer
\* to take its id; the answer {} has no type, so mapping it throws
CreateDocument(modelName, updateOperationFields) ==
    LET fields == stackbitUpdatedFieldToExampleFields(updateOperationFields)
        document == createDocument(modelName, fields)
    IN /\ call' =
            [op |-> "createDocument", updateOperationFields |-> updateOperationFields,
             fields |-> fields,
             result |-> IF ~fields.ok THEN fields
                        ELSE IF IsUndefined(JsGet(document, "type"))
                             THEN Throw("TypeError")
                             ELSE Return(toDocumentId([id |-> JsGet(document, "id"),
                                                       type |-> JsGet(document, "type").s,
                                                       attributes |-> JsObj(<<>>)]))]
       /\ UNCHANGED <<strapiModels, stackbitCache>>

Next ==
    \/ \E contentTypes \in {<<blogPostContentType(blogPostAttributes), tagContentType,
                              usersPermissionsUser>>,
                            <<tagContentType, usersPermissionsUser>>,
                            <<blogPostContentType(blogPostAttributes),
                              usersPermissionsUser>>} :
            GetSchema(<<seoMetaComponent, sectionComponent>>, contentTypes,
                      ContentTypeSettings)
    \/ HostInstallsSchema
    \/ \E type \in {"blog-post", "tag"} : \E document \in ServedDocuments(type) :
            GetDocuments(<<document>>)
    \/ \E documents \in SeqsUpTo(BatchDocuments, MaxBatch) : GetDocuments(documents)
    \/ \E documentId \in CompositeIds : UpdateDocument(documentId, <<setTitle>>)
    \/ \E operations \in OperationBatches : UpdateDocument("blog_post#3", operations)

Spec == Init /\ [][Next]_vars

\* the schema mapping alone, on every attribute shape
NextSchema ==
    \E components \in {<<>>, <<seoMetaComponent, heroComponent>>,
                        <<heroComponent, sharedHeroComponent>>},
       attribute \in SourceAttributes,
       settings \in {<<>>, ContentTypeSettings} :
        GetSchema(components,
                  <<tagContentType,
                    blogPostContentType(<< <<"title", StringAttribute>>,
                                           <<"probe", attribute>> >>),
                    usersPermissionsUser>>,
                  settings)

SpecSchema == Init /\ [][NextSchema]_vars

\* a model field of every shape of the Stackbit vocabulary, as a cached model
\* may declare it
ModelFields ==
    UNION {
        {[type |-> t, name |-> "probe"] : t \in ValueFieldTypes \cup {"image", "object"}},
        {[type |-> "reference", name |-> "probe", models |-> <<"tag">>],
         [type |-> "model", name |-> "probe", models |-> <<"seo_meta">>],
         [type |-> "cross-reference", name |-> "probe", models |-> <<>>]},
        {[type |-> "list", name |-> "probe", items |-> [type |-> t]] :
            t \in UnhandledItemTypes},
        {[type |-> "list", name |-> "probe",
          items |-> [type |-> "reference", models |-> <<"tag">>]],
         [type |-> "list", name |-> "probe",
          items |-> [type |-> "model", models |-> <<"seo_meta">>]]} }

\* the non-null attribute values a field is mapped from
AttributeValues ==
    {JsStr("x"), JsStr(""), JsNum(5), JsBool(FALSE),
     JsObj(<< <<"data", related(3)>> >>),
     JsObj(<< <<"data", JsArr(<<related(3), related(7)>>)>> >>),
     seoMetaValue("T"),
     JsArr(<<>>),
     JsArr(<<seoMetaValue("A"), seoMetaValue("B")>>),
     JsArr(<<JsStr("a"), JsStr("b")>>)}

\* the cache after the schema of the catalogue has been installed, and a model
\* field and an attribute value toDocumentField is about to be given
InitFields ==
    /\ strapiModels = JsUndefined
    /\ stackbitCache =
            toStackbitModels(<<seoMetaComponent, sectionComponent,
                               blogPostContentType(blogPostAttributes), tagContentType>>,
                             ContentTypeSettings)
    /\ call \in {[op |-> "toFields", modelField |-> f, attributeValue |-> v] :
                    f \in ModelFields, v \in AttributeValues}

\* the call toFields makes for one attribute: toDocumentField(modelField,
\* attributeValue)
ToDocumentField ==
    /\ call.op = "toFields"
    /\ call' = [op |-> "toDocumentField", modelField |-> call.modelField,
                attributeValue |-> call.attributeValue,
                result |-> toDocumentField(stackbitCache, call.modelField,
                                           call.attributeValue)]
    /\ UNCHANGED <<strapiModels, stackbitCache>>

NextFields == ToDocumentField

\* toDocumentField alone, on every field shape
SpecFields == InitFields /\ [][NextFields]_vars

-----------------------------------------------------------------------------
(* StrapiApiClient: the document fetch, page by page *)

\* a documentModels that keeps every model
documentModelsUnfiltered(models) == models

\* models.filter(model => model.uid.startsWith('api::'))
documentModels(models) == SelectSeq(models, isApi)

\* a hasNextPage that stops one page early
hasNextPageBelow(page, nbPages) == page < nbPages

\* the condition of the for loop: page <= nbPages
hasNextPage(page, nbPages) == page <= nbPages

\* getDocumentsOfModel up to its first await: documents = [], nbPages = 1,
\* page = 1, and the request for page 1 is out
startFetch(model) ==
    [type |-> model.apiID, pluralName |-> model.info.pluralName,
     page |-> 1, nbPages |-> 1, documents |-> <<>>,
     requests |-> <<1>>, pageCounts |-> <<>>, returned |-> FALSE]

\* the rest of the loop body once the response of the awaited page is in: the
\* items get the type of the model and are pushed, nbPages is the declared
\* page count, page++, and either the next request goes out or the loop ends
receivePage(fetch, items, pageCount) ==
    LET typed == [i \in 1..Len(items) |->
                    [id |-> items[i].id, type |-> fetch.type,
                     attributes |-> items[i].attributes]]
        page == fetch.page + 1
    IN [fetch EXCEPT !.documents = @ \o typed,
                     !.nbPages = pageCount,
                     !.pageCounts = Append(@, pageCount),
                     !.page = page,
                     !.requests = IF hasNextPage(page, pageCount)
                                  THEN Append(@, page) ELSE @,
                     !.returned = ~hasNextPage(page, pageCount)]

\* (await Promise.all(...)).flat(): the documents of the fetches, fetch after
\* fetch
RECURSIVE flat(_)
flat(fetches) ==
    IF fetches = <<>> THEN <<>>
    ELSE fetches[1].documents \o flat(Tail(fetches))

\* the call once the fetches stand as given: still in the paging loops, or,
\* all of them having returned, the documents mapped
afterFetches(fetches) ==
    IF \A i \in 1..Len(fetches) : fetches[i].returned
    THEN [op |-> "getDocuments", fetches |-> fetches,
          documents |-> flat(fetches),
          result |-> toStackbitDocuments(stackbitCache, flat(fetches), manageUrl)]
    ELSE [op |-> "getDocumentsOfModel", fetches |-> fetches]

\* getDocuments is called: models.filter of the undefined this.strapiModels
\* throws; otherwise one fetch per api:: model starts
StartGetDocuments ==
    /\ call.op # "getDocumentsOfModel"
    /\ IF IsUndefined(strapiModels)
       THEN call' = [op |-> "getDocuments", fetches |-> <<>>, documents |-> <<>>,
                     result |-> Throw("TypeError")]
       ELSE LET models == documentModels(strapiModels.items)
            IN call' = afterFetches([i \in 1..Len(models) |-> startFetch(models[i])])
    /\ UNCHANGED <<strapiModels, stackbitCache>>

\* the response of the page fetch i awaits arrives, declaring pageCount pages
ReceivePage(i, pageCount) ==
    /\ call.op = "getDocumentsOfModel"
    /\ i \in 1..Len(call.fetches)
    /\ ~call.fetches[i].returned
    /\ call' = afterFetches(
            [call.fetches EXCEPT ![i] =
                receivePage(@, ServedPage(@.type, @.page), pageCount)])
    /\ UNCHANGED <<strapiModels, stackbitCache>>

\* the response of a page some fetch awaits arrives
ReceiveSomePage ==
    /\ call.op = "getDocumentsOfModel"
    /\ \E i \in 1..Len(call.fetches), pageCount \in 0..MaxPages :
            ReceivePage(i, pageCount)

\* the schema and the document fetch, one call after the other, the responses
\* of the pages of different content types in any order
NextFetch ==
    \/ /\ call.op # "getDocumentsOfModel"
       /\ \E contentTypes \in {<<blogPostContentType(blogPostAttributes),
                                 tagContentType, usersPermissionsUser>>,
                               <<tagContentType, usersPermissionsUser>>,
                               <<usersPermissionsUser>>} :
            GetSchema(<<seoMetaComponent, sectionComponent>>, contentTypes,
                      ContentTypeSettings)
    \/ HostInstallsSchema
    \/ StartGetDocuments
    \/ ReceiveSomePage

SpecFetch == Init /\ [][NextFetch]_vars

\* the write path alone, on every field type and operation
NextWrite ==
    \/ GetSchema(<<seoMetaComponent, sectionComponent>>,
                 <<blogPostContentType(blogPostAttributes), tagContentType>>,
                 ContentTypeSettings)
    \/ HostInstallsSchema
    \/ \E operations \in WriteBatches : UpdateDocument("blog_post#3", operations)
    \/ \E updateOperationFields \in CreationFields :
            CreateDocument("blog_post", updateOperationFields)

SpecWrite == Init /\ [][NextWrite]_vars

-----------------------------------------------------------------------------
(* Claims about the document mapping and the composite id, checked under Spec *)

\* the documents of the last getDocuments call, by position
FetchedDocuments ==
    IF call.op = "getDocuments" THEN 1..Len(call.documents) ELSE {}

\* whether the cache holds a model of the normalized type of fetched document i
ModelIsCached(i) ==
    \E k \in 1..Len(stackbitCache) :
        stackbitCache[k].name = HyphensToUnderscores(call.documents[i].type)

\* the cached model of fetched document i
CachedModelOf(i) ==
    stackbitCache[CHOOSE k \in 1..Len(stackbitCache) :
        stackbitCache[k].name = HyphensToUnderscores(call.documents[i].type)]

\* what mapping fetched document i on its own comes to
MappedAlone(i) == toStackbitDocument(stackbitCache, call.documents[i], manageUrl)

\* the entries of a field map (a sequence of <<name, field>>) named a
EntriesNamed(fields, a) == {e \in 1..Len(fields) : fields[e][1] = a}

\* the fields of model with the name a
DeclaredFields(model, a) ==
    {f \in 1..Len(model.fields) :
        Has(model.fields[f], "name") /\ model.fields[f].name = a}

\* C1: each document of a batch is mapped independently: a document whose
\* model is absent from the cache fails alone, and every other document of the
\* batch (any that maps on its own) is still mapped and returned.
C1_BatchIndependence ==
    \A i \in FetchedDocuments :
        MappedAlone(i).ok =>
            /\ call.result.ok
            /\ \E j \in 1..Len(call.result.v) : call.result.v[j] = MappedAlone(i).v

\* C2: for a model name m and a source id i without the separator, splitting
\* the id that document mapping builds from them gives back m and i.
C2_IdRoundTrip ==
    call.op = "updateDocument" =>
        \A type \in {"tag", "blog-post", "seo-meta", "ghost"} :
        \A id \in {JsNum(7), JsNum(77)}
                  \cup {JsStr(t) : t \in StringsUpTo({ID_SEPARATOR, "7"}, MaxTail)} :
            LET document == [id |-> id, type |-> type, attributes |-> JsObj(<<>>)]
            IN ( /\ ~Contains(HyphensToUnderscores(type), ID_SEPARATOR)
                 /\ ~Contains(ToStr(id), ID_SEPARATOR)
                 /\ call.documentId = toDocumentId(document) )
               => /\ call.contentType = HyphensToUnderscores(type)
                  /\ call.id = JsStr(ToStr(id))

\* updateDocument has split the id that mapping gives blog-post document 77
C2_Witness ==
    /\ call.op = "updateDocument"
    /\ call.documentId =
        toDocumentId([id |-> JsNum(77), type |-> "blog-post", attributes |-> JsObj(<<>>)])
    /\ call.contentType = "blog_post"
    /\ call.id = JsStr("77")

\* C3: a composite id is split on the first separator only: the model name is
\* the text before it, the source id the whole remainder, further separators
\* included.
C3_SplitOnFirstSeparator ==
    (call.op = "updateDocument" /\ Contains(call.documentId, ID_SEPARATOR)) =>
        LET first == IndexOf(call.documentId, ID_SEPARATOR)
        IN /\ call.contentType = SubSeq(call.documentId, 1, first - 1)
           /\ call.id = JsStr(SubSeq(call.documentId, first + 1, Len(call.documentId)))

\* C4: a document of a model without draftAndPublish is published whatever its
\* publish timestamp; a document of a model with draftAndPublish is added if and
\* only if its publish timestamp is null or absent, published otherwise; no
\* other status is produced.
C4_StatusInference ==
    \A i \in FetchedDocuments :
        call.result.ok =>
            LET status == call.result.v[i].status
                draftAndPublish == CachedModelOf(i).context.draftAndPublish
                unpublished ==
                    JsGet(call.documents[i].attributes, "publishedAt").k
                        \in {"null", "undefined"}
            IN /\ status \in {"published", "added"}
               /\ draftAndPublish = JsBool(FALSE) => status = "published"
               /\ draftAndPublish = JsBool(TRUE) => (status = "added" <=> unpublished)

\* a document with a null publish timestamp of a model without draftAndPublish
\* has been mapped, and so has one of a model with it
C4_Witness ==
    /\ call.op = "getDocuments"
    /\ call.result.ok
    /\ \E i, j \in FetchedDocuments :
        /\ CachedModelOf(i).context.draftAndPublish = JsBool(FALSE)
        /\ JsGet(call.documents[i].attributes, "publishedAt") = JsNull
        /\ call.result.v[i].status = "published"
        /\ CachedModelOf(j).context.draftAndPublish = JsBool(TRUE)
        /\ call.result.v[j].status = "added"

RECURSIVE OnlyJoinedEntries(_, _, _)
\* every entry of the field map fields, made from the attributes of value
\* against model, is of an attribute that is not null and that the model
\* declares; and so for every component value nested in it
OnlyJoinedEntries(fields, value, model) ==
    \A e \in 1..Len(fields) :
        LET a == fields[e][1]
            field == fields[e][2]
            nested(name) ==
                stackbitCache[CHOOSE k \in 1..Len(stackbitCache) :
                                stackbitCache[k].name = name]
        IN /\ JsGet(value, a).k \notin {"null", "undefined"}
           /\ DeclaredFields(model, a) # {}
           /\ (field.type = "model" /\ Has(field, "fields")) =>
                OnlyJoinedEntries(field.fields, JsGet(value, a), nested(field.modelName))
           /\ (field.type = "list" /\ Has(field, "items")) =>
                \A k \in 1..Len(field.items) :
                    field.items[k].type = "model" =>
                        OnlyJoinedEntries(field.items[k].fields, JsGet(value, a).items[k],
                                          nested(field.items[k].modelName))

\* whether every attribute of fetched document i is null or undeclared
NothingToJoin(i) ==
    /\ ModelIsCached(i)
    /\ \A e \in 1..Len(call.documents[i].attributes.entries) :
        \/ call.documents[i].attributes.entries[e][2] = JsNull
        \/ DeclaredFields(CachedModelOf(i), call.documents[i].attributes.entries[e][1]) = {}

\* C5: a field map, of a document or of a nested component value, has an entry
\* for attribute a only if the attribute's value is not null and the model
\* declares a field named a; null and undeclared attributes are dropped without
\* an error.
C5_OnlyJoinedFields ==
    /\ \A i \in FetchedDocuments :
        call.result.ok =>
            OnlyJoinedEntries(call.result.v[i].fields, call.documents[i].attributes,
                              CachedModelOf(i))
    /\ (FetchedDocuments # {} /\ \A i \in FetchedDocuments : NothingToJoin(i)) =>
            /\ call.result.ok
            /\ \A i \in FetchedDocuments : call.result.v[i].fields = <<>>

\* a component value with a null attribute has been mapped, nested in a document
C5_Witness ==
    /\ call.op = "getDocuments"
    /\ call.result.ok
    /\ \E i \in FetchedDocuments :
        /\ JsGet(JsGet(call.documents[i].attributes, "seo"), "keywords") = JsNull
        /\ \E e \in 1..Len(call.result.v[i].fields) :
            /\ call.result.v[i].fields[e][1] = "seo"
            /\ call.result.v[i].fields[e][2].type = "model"
            /\ Len(call.result.v[i].fields[e][2].fields) = 2

\* a document with nothing but a null and an undeclared attribute has been
\* mapped to an empty field map
C5_WitnessDropped ==
    /\ call.op = "getDocuments"
    /\ call.result.ok
    /\ \E i \in FetchedDocuments :
        /\ NothingToJoin(i)
        /\ Len(call.documents[i].attributes.entries) = 2
        /\ call.result.v[i].fields = <<>>

\* the attributes <<a, value>> of fetched document i whose cached model
\* declares a field named a
JoinedAttributes(i) ==
    IF ModelIsCached(i)
    THEN {e \in 1..Len(call.documents[i].attributes.entries) :
            DeclaredFields(CachedModelOf(i), call.documents[i].attributes.entries[e][1]) # {}}
    ELSE {}

\* the field the cached model of fetched document i declares for attribute e
FieldOf(i, e) ==
    LET model == CachedModelOf(i)
        a == call.documents[i].attributes.entries[e][1]
    IN model.fields[CHOOSE f \in DeclaredFields(model, a) :
                        \A g \in DeclaredFields(model, a) : f <= g]

\* C6: for a list-of-reference field with target models [t], a value
\* {data: [e1..en]} is mapped to a list of n items in the same order, item k
\* being a reference to document t#ek.id.
C6_ListOfReferences ==
    \A i \in FetchedDocuments : \A e \in JoinedAttributes(i) :
        LET a == call.documents[i].attributes.entries[e][1]
            value == call.documents[i].attributes.entries[e][2]
            field == FieldOf(i, e)
            data == JsGet(value, "data")
        IN ( /\ field.type = "list" /\ field.items.type = "reference"
             /\ data.k = "arr" )
           => /\ MappedAlone(i).ok
              /\ \E x \in EntriesNamed(MappedAlone(i).v.fields, a) :
                    MappedAlone(i).v.fields[x][2] =
                        [type |-> "list", localized |-> FALSE,
                         items |-> [k \in 1..Len(data.items) |->
                            [type |-> "reference", refType |-> "document",
                             refId |-> JsStr(field.items.models[1] \o "#"
                                             \o ToStr(JsGet(data.items[k], "id")))]]]

\* C7: for a bare reference field, a value {data: {id}} is mapped to a
\* reference to document fieldName#id, fieldName being the field's declared
\* name; a value whose data is absent or null gives no field entry.
C7_BareReference ==
    \A i \in FetchedDocuments : \A e \in JoinedAttributes(i) :
        LET a == call.documents[i].attributes.entries[e][1]
            value == call.documents[i].attributes.entries[e][2]
            field == FieldOf(i, e)
            data == JsGet(value, "data")
        IN (field.type = "reference" /\ value.k = "obj" /\ call.result.ok) =>
            /\ data.k = "obj" =>
                \E x \in EntriesNamed(call.result.v[i].fields, a) :
                    call.result.v[i].fields[x][2] =
                        [type |-> "reference", refType |-> "document",
                         refId |-> JsStr(a \o "#" \o ToStr(JsGet(data, "id")))]
            /\ data.k \in {"null", "undefined"} =>
                EntriesNamed(call.result.v[i].fields, a) = {}

\* a reference of a field whose name is not its target's has been mapped
C7_Witness ==
    /\ call.op = "getDocuments"
    /\ call.result.ok
    /\ \E i \in FetchedDocuments : \E e \in JoinedAttributes(i) :
        /\ FieldOf(i, e).type = "reference"
        /\ FieldOf(i, e).name = "category"
        /\ FieldOf(i, e).models = <<"tag">>
        /\ JsGet(call.documents[i].attributes.entries[e][2], "data") = related(3)
        /\ call.result.v[i].fields =
            << <<"category", [type |-> "reference", refType |-> "document",
                              refId |-> JsStr("category#3")]>> >>

\* a reference whose data is null has been mapped to no entry
C7_WitnessEmpty ==
    /\ call.op = "getDocuments"
    /\ call.result.ok
    /\ \E i \in FetchedDocuments : \E e \in JoinedAttributes(i) :
        /\ FieldOf(i, e).type = "reference"
        /\ JsGet(call.documents[i].attributes.entries[e][2], "data") = JsNull
        /\ call.result.v[i].fields = <<>>

seoMetaFields(title) ==
    << <<"metaTitle", [type |-> "string", value |-> JsStr(title)]>>,
       <<"canonical", [type |-> "reference", refType |-> "document",
                       refId |-> JsStr("canonical#7")]>> >>

-----------------------------------------------------------------------------
(* Claims about the schema mapping, checked under SpecSchema *)

\* the positions <<i, j>> of every attribute j of every fetched source model i
\* after a getSchema call; the mapped field is call.result.models[i].fields[j]
FetchedAttributes ==
    IF call.op = "getSchema"
    THEN UNION {{<<i, j>> : j \in 1..Len(strapiModels.items[i].attributes)} :
                    i \in 1..Len(strapiModels.items)}
    ELSE {}

SourceAttributeAt(p) == strapiModels.items[p[1]].attributes[p[2]]
MappedFieldAt(p) == call.result.models[p[1]].fields[p[2]]

\* n is the identifier uid without its namespace prefix (the text up to its
\* dot), every hyphen turned into an underscore
IsNormalizedName(n, uid) ==
    \E d \in 1..Len(uid) :
        /\ Char(uid, d) = "."
        /\ \A e \in (d + 1)..Len(uid) : Char(uid, e) # "."
        /\ Len(n) = Len(uid) - d
        /\ \A q \in 1..Len(n) :
            Char(n, q) = IF Char(uid, d + q) = "-" THEN "_" ELSE Char(uid, d + q)

\* C8: a relation attribute with cardinality oneToMany or manyToMany becomes a
\* list field whose items are references to the normalized target; one with
\* cardinality oneToOne or manyToOne becomes a bare reference field to the
\* normalized target; normalized = namespace prefix stripped, hyphens to
\* underscores.
C8_RelationClassification ==
    \A p \in FetchedAttributes :
        LET name == SourceAttributeAt(p)[1]
            attribute == SourceAttributeAt(p)[2]
            field == MappedFieldAt(p)
        IN attribute.type = "relation" =>
            /\ attribute.relation \in {"oneToMany", "manyToMany"} =>
                /\ DOMAIN field = {"type", "name", "items"}
                /\ field.type = "list" /\ field.name = name
                /\ DOMAIN field.items = {"type", "models"}
                /\ field.items.type = "reference"
                /\ Len(field.items.models) = 1
                /\ IsNormalizedName(field.items.models[1], attribute.target)
            /\ attribute.relation \in {"oneToOne", "manyToOne"} =>
                /\ DOMAIN field = {"type", "name", "models"}
                /\ field.type = "reference" /\ field.name = name
                /\ Len(field.models) = 1
                /\ IsNormalizedName(field.models[1], attribute.target)

\* a manyToMany relation to a hyphenated target has been mapped to a list
C8_Witness ==
    \E p \in FetchedAttributes :
        /\ SourceAttributeAt(p)[2].type = "relation"
        /\ SourceAttributeAt(p)[2].relation = "manyToMany"
        /\ SourceAttributeAt(p)[2].target = "api::blog-post.blog-post"
        /\ MappedFieldAt(p).type = "list"
        /\ MappedFieldAt(p).items.models = <<"blog_post">>

\* C9: a component attribute with repeatable = true becomes a list field whose
\* items are models of the normalized component name; with repeatable false or
\* absent it becomes a bare model field of that name; and that name is the name
\* toStackbitModels gives the component model itself.
C9_ComponentClassification ==
    \A p \in FetchedAttributes :
        LET name == SourceAttributeAt(p)[1]
            attribute == SourceAttributeAt(p)[2]
            field == MappedFieldAt(p)
            repeatable == Has(attribute, "repeatable") /\ attribute.repeatable
            models == IF repeatable THEN field.items.models ELSE field.models
        IN attribute.type = "component" =>
            /\ repeatable =>
                /\ DOMAIN field = {"type", "name", "items"}
                /\ field.type = "list" /\ field.name = name
                /\ DOMAIN field.items = {"type", "models"}
                /\ field.items.type = "model"
            /\ ~repeatable =>
                /\ DOMAIN field = {"type", "name", "models"}
                /\ field.type = "model" /\ field.name = name
            /\ Len(models) = 1
            /\ IsNormalizedName(models[1], attribute.component)
            /\ \A i \in 1..Len(strapiModels.items) :
                strapiModels.items[i].uid = attribute.component =>
                    call.result.models[i].name = models[1]

\* a repeatable component attribute has been mapped while the hyphenated
\* component it names is one of the mapped models
C9_Witness ==
    \E p \in FetchedAttributes :
        /\ SourceAttributeAt(p)[2].type = "component"
        /\ Has(SourceAttributeAt(p)[2], "repeatable")
        /\ SourceAttributeAt(p)[2].repeatable
        /\ SourceAttributeAt(p)[2].component = "shared.seo-meta"
        /\ \E i \in 1..Len(strapiModels.items) :
            /\ strapiModels.items[i].uid = "shared.seo-meta"
            /\ call.result.models[i].name = "seo_meta"
        /\ MappedFieldAt(p).type = "list"

\* the types the lookup table holds
typeMappingEntries == {typeMapping[t] : t \in DOMAIN typeMapping}

\* C10: every scalar attribute type (boolean, integer, float, string, datetime,
\* json, text, richtext, enumeration) is mapped to a field whose type is a
\* defined entry of the lookup table, with the attribute's required and default.
C10_ScalarMapping ==
    \A p \in FetchedAttributes :
        LET attribute == SourceAttributeAt(p)[2]
            field == MappedFieldAt(p)
        IN attribute.type \in ScalarAttributeTypes =>
            /\ field.type \in typeMappingEntries
            /\ Has(attribute, "required") => field.required = attribute.required
            /\ Has(attribute, "default") => field.default = attribute.default

\* whether the type of the entry <<name, attribute>> is of the known vocabulary
HasKnownType(entry) == entry[2].type \in KnownAttributeTypes

\* C11: an attribute whose type is outside the known vocabulary is dropped: the
\* field list of its model has no entry for it, and is made of the fields of
\* the other attributes, mapped as usual, in their order.
C11_UnknownAttributeDropped ==
    call.op = "getSchema" =>
        \A i \in 1..Len(strapiModels.items) :
            LET known == SelectSeq(strapiModels.items[i].attributes, HasKnownType)
                fields == call.result.models[i].fields
            IN /\ Len(fields) = Len(known)
               /\ \A j \in 1..Len(known) :
                    fields[j] = toStackbitField(known[j][1], known[j][2])

\* C12: two source models with distinct uid get distinct names, so every name
\* of the mapped model set is unique.
C12_ModelNameUniqueness ==
    call.op = "getSchema" =>
        \A i, j \in 1..Len(strapiModels.items) :
            strapiModels.items[i].uid # strapiModels.items[j].uid =>
                call.result.models[i].name # call.result.models[j].name

-----------------------------------------------------------------------------
(* Claims about the write path, checked under SpecWrite *)

\* the operations of the last updateDocument call, by position
TranslatedOperations ==
    IF call.op = "updateDocument" THEN 1..Len(call.operations) ELSE {}

\* no operation after operation i writes the key operation i writes
IsLastOnItsKey(i) ==
    \A j \in (i + 1)..Len(call.operations) :
        call.operations[j].fieldPath[1] # call.operations[i].fieldPath[1]

\* the field types whose value is written as it is, or as its refId
ScalarOrReferenceTypes ==
    {"string", "url", "slug", "text", "markdown", "html", "boolean", "date",
     "datetime", "color", "number", "enum", "file", "json", "style", "richText",
     "reference"}

\* the composite field types
CompositeFieldTypes == {"image", "object", "model", "cross-reference", "list"}

\* the operations with every field path cut to its first segment
FirstSegmentsOnly(operations) ==
    [i \in 1..Len(operations) |->
        [operations[i] EXCEPT !.fieldPath = <<operations[i].fieldPath[1]>>]]

\* C13: a set operation with path p and a scalar value v gives the payload the
\* key p[0] with the value v (the refId for a reference); a batch of that one
\* operation gives exactly {p[0]: v}; and only the first segment of a path is
\* consulted: cutting every path to its first segment gives the same payload.
C13_SetPayload ==
    /\ \A i \in TranslatedOperations :
        LET operation == call.operations[i]
            key == operation.fieldPath[1]
            written == IF operation.field.type = "reference"
                       THEN operation.field.refId ELSE operation.field.value
        IN ( /\ operation.opType = "set"
             /\ operation.field.type \in ScalarOrReferenceTypes )
           => /\ (call.fields.ok /\ IsLastOnItsKey(i)) =>
                    \E e \in EntriesNamed(call.fields.v, key) :
                        call.fields.v[e][2] = written
              /\ Len(call.operations) = 1 =>
                    call.fields = Return(<< <<key, written>> >>)
    /\ call.op = "updateDocument" =>
        call.fields = stackbitUpdatesToStrapiFields(FirstSegmentsOnly(call.operations))

\* a set of a string on the path seo.metaTitle has given the payload {seo: "Hello"}
C13_Witness ==
    /\ call.op = "updateDocument"
    /\ call.operations = <<setOperation(<<"seo", "metaTitle">>, operationField("string"))>>
    /\ call.fields = Return(<< <<"seo", JsStr("Hello")>> >>)

\* C14: an unset operation on a field of a supported scalar or reference type
\* gives a payload that has the key fieldPath[0], with the value undefined; the
\* key is not removed.
C14_UnsetPayload ==
    \A i \in TranslatedOperations :
        LET operation == call.operations[i]
            key == operation.fieldPath[1]
        IN ( /\ operation.opType = "unset"
             /\ operation.modelField.type \in ScalarOrReferenceTypes )
           => /\ (call.fields.ok /\ IsLastOnItsKey(i)) =>
                    \E e \in EntriesNamed(call.fields.v, key) :
                        call.fields.v[e][2] = JsUndefined
              /\ Len(call.operations) = 1 =>
                    call.fields = Return(<< <<key, JsUndefined>> >>)

\* an unset of the string field title has given a payload with the key title
\* and no value, after a set of the same key
C14_Witness ==
    /\ call.op = "updateDocument"
    /\ call.operations = <<setTitle, unsetTitle>>
    /\ call.fields = Return(<< <<"title", JsUndefined>> >>)

\* the operations of the last updateDocument call that are neither set nor unset
UnsupportedOperations ==
    {i \in TranslatedOperations : call.operations[i].opType \notin {"set", "unset"}}

\* operation j is a set of a composite value or an unset of a field the unset
\* has no case for
IsRefusedByType(j) ==
    LET operation == call.operations[j]
    IN \/ /\ operation.opType = "set"
          /\ operation.field.type \in CompositeFieldTypes
       \/ /\ operation.opType = "unset"
          /\ operation.modelField.type \in {"object", "model", "cross-reference", "list"}

\* C15 as stated: a batch with an operation that is neither set nor unset fails
\* with the unsupported-operation error and returns no payload.
C15_UnsupportedOperation ==
    UnsupportedOperations # {} =>
        /\ call.fields = Throw("operation not implemented")
        /\ call.requests = <<>>

\* C15, amended: a batch with an operation that is neither set nor unset fails
\* and returns no payload, so nothing is sent; the error is the
\* unsupported-operation error unless an operation before the first such
\* operation is refused for its field type, whose error is then the one raised.
C15_UnsupportedOperationOrEarlierError ==
    UnsupportedOperations # {} =>
        LET first == CHOOSE i \in UnsupportedOperations :
                        \A j \in UnsupportedOperations : i <= j
        IN /\ ~call.fields.ok
           /\ ~call.result.ok
           /\ call.requests = <<>>
           /\ IF \E j \in 1..(first - 1) : IsRefusedByType(j)
              THEN call.fields = Throw("not implemented")
              ELSE call.fields = Throw("operation not implemented")

\* a batch of a set and an insert has failed on the insert, while the model of
\* the document is cached, and nothing was sent
C15_Witness ==
    /\ call.op = "updateDocument"
    /\ call.operations = <<setTitle, insertTag>>
    /\ getModelByName(stackbitCache, call.contentType) # JsUndefined
    /\ call.fields = Throw("operation not implemented")
    /\ call.requests = <<>>

\* C16: a creation field of a composite type, a set operation with a value of
\* a composite type and an unset operation on a field of a composite type
\* (image, object, model, cross-reference, list) all fail with an error.
C16_CompositeTypesRejected ==
    /\ call.op = "createDocument" =>
        ( (\E e \in 1..Len(call.updateOperationFields) :
                call.updateOperationFields[e][2].type \in CompositeFieldTypes)
          => ~call.fields.ok )
    /\ \A i \in TranslatedOperations :
        LET operation == call.operations[i]
        IN /\ ( /\ operation.opType = "set"
                /\ operation.field.type \in CompositeFieldTypes ) => ~call.fields.ok
           /\ ( /\ operation.opType = "unset"
                /\ operation.modelField.type \in CompositeFieldTypes ) => ~call.fields.ok

-----------------------------------------------------------------------------
(* Claims about toDocumentField, checked under SpecFields *)

\* the scalar field types of document mapping, file included
MappableScalarTypes ==
    {"string", "url", "slug", "text", "markdown", "html", "boolean", "date",
     "datetime", "color", "number", "enum", "file", "json", "style", "richText"}

\* a field shape document mapping converts: scalar, file, reference, list of
\* reference, list of model, bare model
IsMappableShape(field) ==
    \/ field.type \in MappableScalarTypes \cup {"reference", "model"}
    \/ /\ field.type = "list"
       /\ field.items.type \in {"reference", "model"}

\* C18: a non-null attribute matching a model field of any other shape (object,
\* cross-reference, image, a list of other items) makes the mapping fail with
\* the unsupported-field-type error; it is never dropped or mapped.
C18_UnsupportedFieldType ==
    (call.op = "toDocumentField" /\ ~IsMappableShape(call.modelField)) =>
        call.result = Throw("not implemented")

-----------------------------------------------------------------------------
(* Claims about the document fetch, checked under SpecFetch *)

\* the fetches of the getDocuments call under way or completed, by position
Fetches == IF Has(call, "fetches") THEN 1..Len(call.fetches) ELSE {}

\* the documents of the pages 1..n of a content type, page after page
RECURSIVE PagesInOrder(_, _)
PagesInOrder(apiID, n) ==
    IF n = 0 THEN <<>>
    ELSE PagesInOrder(apiID, n - 1)
         \o [k \in 1..Len(ServedPage(apiID, n)) |->
                [id |-> ServedPage(apiID, n)[k].id, type |-> apiID,
                 attributes |-> ServedPage(apiID, n)[k].attributes]]

\* C19: within the fetch of one content type, page 1 is always requested, the
\* pages are requested in order, page p+1 only after the response to page p
\* and only if p is below the page count that response declares; when every
\* response declares the same page count N >= 1 the loop makes at most N
\* requests, and has ended after exactly N requests with the documents of the
\* pages 1..N in page order.
C19_SequentialPaging ==
    \A i \in Fetches :
        LET fetch == call.fetches[i]
            sent == Len(fetch.requests)
            received == Len(fetch.pageCounts)
        IN /\ sent >= 1
           /\ \A p \in 1..sent : fetch.requests[p] = p
           /\ sent = IF fetch.returned THEN received ELSE received + 1
           /\ \A p \in 1..(sent - 1) : p < fetch.pageCounts[p]
           /\ fetch.returned => received >= fetch.pageCounts[received]
           /\ \A N \in 1..MaxPages :
                (\A p \in 1..received : fetch.pageCounts[p] = N) =>
                    /\ sent <= N
                    /\ fetch.returned =>
                        /\ sent = N
                        /\ fetch.documents = PagesInOrder(fetch.type, N)

\* the fetch of the second content type has returned the documents of three
\* pages after three requests while the first still awaits its first page
C19_Witness ==
    /\ call.op = "getDocumentsOfModel"
    /\ Len(call.fetches) = 2
    /\ call.fetches[1].requests = <<1>> /\ call.fetches[1].pageCounts = <<>>
    /\ call.fetches[2].returned
    /\ call.fetches[2].requests = <<1, 2, 3>>
    /\ call.fetches[2].pageCounts = <<3, 3, 3>>
    /\ Len(call.fetches[2].documents) = 4

\* the apiIDs of the content types (uid starting with api::) among models
RECURSIVE ApiContentTypes(_)
ApiContentTypes(models) ==
    IF models = <<>> THEN <<>>
    ELSE (IF SubSeq(models[1].uid, 1, 5) = "api::" THEN <<models[1].apiID>> ELSE <<>>)
         \o ApiContentTypes(Tail(models))

\* C20: a getDocuments call made before any getSchema has fetched the source
\* models fails and returns no document list; one made after fetches the
\* documents of exactly the api:: content types of the model set fetched last.
C20_SchemaBeforeDocuments ==
    Fetches # {} \/ call.op = "getDocuments" =>
        /\ IsUndefined(strapiModels) =>
            /\ call.op = "getDocuments"
            /\ ~call.result.ok
            /\ call.fetches = <<>>
        /\ ~IsUndefined(strapiModels) =>
            [i \in 1..Len(call.fetches) |-> call.fetches[i].type]
                = ApiContentTypes(strapiModels.items)
        /\ (call.op = "getDocuments" /\ call.result.ok) =>
            /\ ~IsUndefined(strapiModels)
            /\ \A d \in 1..Len(call.documents) :
                \E f \in Fetches : call.fetches[f].type = call.documents[d].type

\* after a schema with the content type tag alone (next to two components and
\* a plugin content type), the documents of tag, and only of tag, were fetched
\* and mapped
C20_Witness ==
    /\ call.op = "getDocuments"
    /\ call.result.ok
    /\ Len(strapiModels.items) = 3
    /\ Len(call.fetches) = 1
    /\ call.fetches[1].type = "tag"
    /\ Len(call.result.v) >= 2

-----------------------------------------------------------------------------
(* Claims about the write request and the order of the operations, checked
   under SpecWrite *)

\* the text of the document id before its first separator
idPrefix(documentId) ==
    SubSeq(documentId, 1, IndexOf(documentId, ID_SEPARATOR) - 1)

\* the text of the document id after its first separator
idSuffix(documentId) ==
    SubSeq(documentId, IndexOf(documentId, ID_SEPARATOR) + 1, Len(documentId))

\* C21: updateDocument sends a write request only after the whole batch has
\* been translated: when the translation of an operation fails no PUT is sent;
\* otherwise exactly one PUT is sent, to /api/{apiEndpoint}/{sourceId} with the
\* body {data: payload}, apiEndpoint being that of the cached model named by
\* the prefix of the composite id and sourceId the suffix of the id.
C21_PutAfterTranslation ==
    call.op = "updateDocument" =>
        LET model == getModelByName(stackbitCache, idPrefix(call.documentId))
        IN IF ~call.fields.ok THEN call.requests = <<>>
           ELSE ~IsUndefined(model) =>
                call.requests =
                    <<[method |-> "PUT",
                       url |-> "http://localhost:1337/api/"
                                \o ToStr(model.context.apiEndpoint) \o "/"
                                \o idSuffix(call.documentId),
                       body |-> [data |-> call.fields.v]]>>

\* the first path segments of the operations of the last updateDocument call
FirstSegments == {call.operations[i].fieldPath[1] : i \in TranslatedOperations}

\* what operation i alone gives its key: the value of a set (the refId of a
\* reference), undefined for an unset
resultOf(i) ==
    LET operation == call.operations[i]
    IN IF operation.opType = "unset" THEN JsUndefined
       ELSE IF operation.field.type = "reference" THEN operation.field.refId
       ELSE operation.field.value

\* C22: the last operation wins per field: when several supported operations
\* of a batch have the same first path segment k, the returned payload holds
\* for k exactly the result of the last of them in batch order (the value of a
\* set after an unset, the key with the value undefined for an unset after a
\* set), and the keys of the payload are exactly the first path segments of
\* the operations of the batch.
C22_LastOperationWins ==
    (call.op = "updateDocument" /\ call.fields.ok) =>
        /\ {call.fields.v[e][1] : e \in 1..Len(call.fields.v)} = FirstSegments
        /\ \A i \in TranslatedOperations :
            LET key == call.operations[i].fieldPath[1]
            IN /\ Cardinality(EntriesNamed(call.fields.v, key)) = 1
               /\ IsLastOnItsKey(i) =>
                    \A e \in EntriesNamed(call.fields.v, key) :
                        call.fields.v[e][2] = resultOf(i)

\* a set of title after an unset of title has given the payload the value of
\* the set
C22_Witness ==
    /\ call.op = "updateDocument"
    /\ call.operations = <<unsetTitle, setTitle>>
    /\ call.fields = Return(<< <<"title", JsStr("Hello")>> >>)

====
